---- MODULE Spec2Model ----
(***************************************************************************)
(* A model of the GraphQL edge worker that forwards chat, completion and   *)
(* list-models requests to the OpenAI client:                              *)
(*   - the edge handler            (src/index.ts, fetch)                   *)
(*   - the resolvers               (src/schema/resolvers.ts)               *)
(*   - the provider adapter        (services/openai.ts, OpenAIService)     *)
(* One request is handled at a time; every value is request-scoped.        *)
(*                                                                         *)
(* JavaScript values are tagged records: [t |-> "undefined"],              *)
(* [t |-> "null"], [t |-> "number", v |-> n], [t |-> "string", v |-> s],   *)
(* [t |-> "object", ...].  Temperatures are counted in tenths, so the      *)
(* number 0.7 is Num(7) and 2 is Num(20).                                  *)
(***************************************************************************)
EXTENDS Integers, Sequences, FiniteSets, TLC

VARIABLES pc, served, request, env, openai, calls, resolverRuns, settled,
          opResult, resolverResult, yogaResponse, thrown, response

vars == <<pc, served, request, env, openai, calls, resolverRuns, settled,
          opResult, resolverResult, yogaResponse, thrown, response>>

(* The number of requests the worker handles in one behaviour. *)
MaxRequests == 2

---------------------------------------------------------------------------
(* JavaScript values *)

Undefined == [t |-> "undefined"]
Null == [t |-> "null"]
Num(n) == [t |-> "number", v |-> n]
Str(s) == [t |-> "string", v |-> s]

(* ToBoolean(x) = false: the operand test of `a || b` and of `!a`. *)
Falsy(x) ==
    \/ x.t = "undefined"
    \/ x.t = "null"
    \/ (x.t = "number" /\ x.v = 0)
    \/ (x.t = "string" /\ x.v = "")

(* a || b *)
OrElse(a, b) == IF Falsy(a) THEN b ELSE a

(* new Error(message), and a thrown value that is no Error *)
Error(m) == [t |-> "Error", message |-> m]
NonError(s) == [t |-> "thrown", v |-> s]

(* error instanceof Error ? error.message : 'Unknown error' *)
errorText(e) == IF e.t = "Error" THEN e.message ELSE "Unknown error"

Return(v) == [kind |-> "return", value |-> v]
Throw(e) == [kind |-> "throw", error |-> e]

(* What the awaited provider promise does: resolve with a value or reject. *)
Resolved(v) == [kind |-> "resolve", value |-> v]
Rejected(e) == [kind |-> "reject", error |-> e]

---------------------------------------------------------------------------
(* The provider adapter: OpenAIService *)

DefaultChatModel == "gpt-3.5-turbo"
DefaultCompletionModel == "gpt-3.5-turbo-instruct"
DefaultTemperature == 7
DefaultMaxTokens == 1000

(* The argument of client.chat.completions.create in chat. *)
chatParams(input) ==
    [api |-> "chat.completions.create",
     model |-> OrElse(input.model, Str(DefaultChatModel)),
     messages |-> input.messages,
     temperature |-> OrElse(input.temperature, Num(DefaultTemperature)),
     max_tokens |-> OrElse(input.maxTokens, Num(DefaultMaxTokens))]

(* completionParams with the chat model as its default. *)
completionParamsChatModel(input) ==
    [api |-> "completions.create",
     model |-> OrElse(input.model, Str(DefaultChatModel)),
     prompt |-> input.prompt,
     max_tokens |-> OrElse(input.maxTokens, Num(DefaultMaxTokens)),
     temperature |-> OrElse(input.temperature, Num(DefaultTemperature))]

(* The argument of client.completions.create in completion. *)
completionParams(input) ==
    [api |-> "completions.create",
     model |-> OrElse(input.model, Str(DefaultCompletionModel)),
     prompt |-> input.prompt,
     max_tokens |-> OrElse(input.maxTokens, Num(DefaultMaxTokens)),
     temperature |-> OrElse(input.temperature, Num(DefaultTemperature))]

(* client.models.list() takes no argument. *)
modelsParams == [api |-> "models.list"]

(* response.usage ? { promptTokens, completionTokens, totalTokens } : undefined *)
mapUsage(usage) ==
    IF Falsy(usage) THEN Undefined
    ELSE [t |-> "object",
          promptTokens |-> usage.prompt_tokens,
          completionTokens |-> usage.completion_tokens,
          totalTokens |-> usage.total_tokens]

(* response.choices[0]?.message *)
firstMessage(resp) ==
    IF Len(resp.choices) = 0 THEN Undefined ELSE resp.choices[1].message

(* response.choices[0]?.text *)
firstText(resp) ==
    IF Len(resp.choices) = 0 THEN Undefined ELSE resp.choices[1].text

(* The try block of chat once the provider call has settled. *)
chatTry(outcome) ==
    IF outcome.kind = "reject" THEN Throw(outcome.error)
    ELSE LET message == firstMessage(outcome.value) IN
         IF Falsy(message) THEN Throw(Error("No message in response"))
         ELSE Return([message |-> [role |-> message.role,
                                   content |-> OrElse(message.content, Str(""))],
                      model |-> outcome.value.model,
                      usage |-> mapUsage(outcome.value.usage)])

(* chat whose catch rethrows the text it caught without the prefix. *)
chatNoPrefix(outcome) ==
    LET r == chatTry(outcome) IN
    IF r.kind = "throw" THEN Throw(Error(errorText(r.error))) ELSE r

(* chat: the try block, and the catch that wraps whatever it threw. *)
chat(outcome) ==
    LET r == chatTry(outcome) IN
    IF r.kind = "throw"
    THEN Throw(Error("Failed to generate chat response: " \o errorText(r.error)))
    ELSE r

(* completionTry that tests !text instead of text === undefined. *)
completionTryFalsyText(outcome) ==
    IF outcome.kind = "reject" THEN Throw(outcome.error)
    ELSE LET text == firstText(outcome.value) IN
         IF Falsy(text) THEN Throw(Error("No text in response"))
         ELSE Return([text |-> text,
                      model |-> outcome.value.model,
                      usage |-> mapUsage(outcome.value.usage)])

(* The try block of completion once the provider call has settled. *)
completionTry(outcome) ==
    IF outcome.kind = "reject" THEN Throw(outcome.error)
    ELSE LET text == firstText(outcome.value) IN
         IF text.t = "undefined" THEN Throw(Error("No text in response"))
         ELSE Return([text |-> text,
                      model |-> outcome.value.model,
                      usage |-> mapUsage(outcome.value.usage)])

(* completion: the try block, and the catch that wraps whatever it threw. *)
completion(outcome) ==
    LET r == completionTry(outcome) IN
    IF r.kind = "throw"
    THEN Throw(Error("Failed to generate completion: " \o errorText(r.error)))
    ELSE r

(* One element of response.data.map(...) in getModels. *)
mapModel(m) ==
    [id |-> m.id, object |-> m.object, created |-> m.created, ownedBy |-> m.owned_by]

(* getModels: map the listed models, or wrap the failure. *)
getModels(outcome) ==
    IF outcome.kind = "reject"
    THEN Throw(Error("Failed to fetch models: " \o errorText(outcome.error)))
    ELSE Return([i \in 1..Len(outcome.value.data) |-> mapModel(outcome.value.data[i])])

(* createOpenAIService that rejects only an undefined credential. *)
createOpenAIServiceUndefinedOnly(e, ctor) ==
    IF e.OPENAI_API_KEY.t = "undefined"
    THEN Throw(Error("OPENAI_API_KEY is not configured"))
    ELSE IF ctor.kind = "throw" THEN ctor
    ELSE Return([t |-> "object", apiKey |-> e.OPENAI_API_KEY])

(* createOpenAIService: the credential check, then new OpenAIService(key),  *)
(* whose client constructor returns or throws (ctor).                       *)
createOpenAIService(e, ctor) ==
    IF Falsy(e.OPENAI_API_KEY)
    THEN Throw(Error("OPENAI_API_KEY is not configured"))
    ELSE IF ctor.kind = "throw" THEN ctor
    ELSE Return([t |-> "object", apiKey |-> e.OPENAI_API_KEY])

---------------------------------------------------------------------------
(* The schema and its execution *)

(* typeDefs: health: String!, models: [Model!]!, chat(...): ChatResponse!, *)
(* completion(...): CompletionResponse! -- every root field is non-null.   *)
NonNullField(field) == field \in {"health", "models", "chat", "completion"}

(* The text the server library shows in place of a masked error. *)
MaskedErrorText == "Unexpected error."

(* The execution result for one root field whose resolver returned or      *)
(* threw: a thrown error goes to the errors list with the field's path and *)
(* the field becomes null, which a non-null root field passes on to data.  *)
(* createYoga is given no maskedErrors option, so whether the entry shows  *)
(* the error's own message or the masked text is the library's default:    *)
(* `masked` keeps both outcomes.                                           *)
executionResult(field, result, masked) ==
    IF result.kind = "throw"
    THEN [t |-> "graphql",
          data |-> IF NonNullField(field) THEN Null
                   ELSE [t |-> "object", fields |-> (field :> Null)],
          errors |-> <<[message |-> IF masked THEN MaskedErrorText
                                    ELSE result.error.message,
                        path |-> <<field>>]>>]
    ELSE [t |-> "graphql",
          data |-> [t |-> "object", fields |-> (field :> result.value)],
          errors |-> <<>>]

(* The headers the server library puts on its own response: the content    *)
(* type, with or without cross-origin headers of its own making.           *)
YogaHeaderChoices ==
    { ("Content-Type" :> "application/json"),
      ("Content-Type" :> "application/json")
        @@ ("Access-Control-Allow-Origin" :> "https://app.example")
        @@ ("Access-Control-Allow-Credentials" :> "true") }

(* graphiql: env.ENVIRONMENT === 'development' || !env.ENVIRONMENT *)
graphiqlEnabled(e) ==
    \/ (e.ENVIRONMENT.t = "string" /\ e.ENVIRONMENT.v = "development")
    \/ Falsy(e.ENVIRONMENT)

(* The statuses left open for a page request when the explorer is off. *)
NoPageStatuses == {400, 404}

(* The status of an executed query's response: 200 when the field was      *)
(* resolved; with a failed field the library decides between 200 and 500.  *)
ExecutionStatuses(result) == IF result.kind = "throw" THEN {200, 500} ELSE {200}

(* What createYoga or yoga.fetch may throw instead of answering. *)
YogaFailures == {Error("Unexpected failure in the GraphQL server"),
                 NonError("yoga failure")}

---------------------------------------------------------------------------
(* The edge handler: fetch *)

corsHeaders ==
    ("Access-Control-Allow-Origin" :> "*")
      @@ ("Access-Control-Allow-Methods" :> "GET, POST, OPTIONS")
      @@ ("Access-Control-Allow-Headers" :> "Content-Type, Authorization")

(* isPreflight comparing with the lower-case method name. *)
isPreflightLowerCase(req) == req.method = "options"

(* request.method === 'OPTIONS' *)
isPreflight(req) == req.method = "OPTIONS"

(* new Response(null, { status: 204, headers: corsHeaders }) *)
preflightResponse == [status |-> 204, headers |-> corsHeaders, body |-> Null]

(* headers.append(key, value) in place of headers.set(key, value). *)
appendHeaders(headers, entries) ==
    [k \in DOMAIN headers \cup DOMAIN entries |->
        IF k \in DOMAIN headers /\ k \in DOMAIN entries
        THEN headers[k] \o ", " \o entries[k]
        ELSE IF k \in DOMAIN entries THEN entries[k] ELSE headers[k]]

(* headers.set(key, value) for every entry of `entries` *)
setHeaders(headers, entries) ==
    [k \in DOMAIN headers \cup DOMAIN entries |->
        IF k \in DOMAIN entries THEN entries[k] ELSE headers[k]]

(* new Response(response.body, response) with the CORS headers set on it *)
withCors(resp) == [resp EXCEPT !.headers = setHeaders(resp.headers, corsHeaders)]

(* The catch-all's response. *)
errorResponse(e) ==
    [status |-> 500,
     headers |-> ("Content-Type" :> "application/json") @@ corsHeaders,
     body |-> [t |-> "json",
               error |-> "Internal Server Error",
               message |-> errorText(e)]]

---------------------------------------------------------------------------
(* The inputs: environments, requests, and what the provider may answer *)

Envs ==
    [OPENAI_API_KEY : {Undefined, Str(""), Str("sk-test")},
     ENVIRONMENT : {Undefined, Str("development"), Str("production")}]

Messages == <<[role |-> "user", content |-> "Hello"]>>

ModelInputs == {Undefined, Str(""), Str("gpt-4")}
TemperatureInputs == {Undefined, Null, Num(0), Num(8), Num(20)}
MaxTokensInputs == {Undefined, Null, Num(1), Num(100)}

ChatInputs ==
    [messages : {Messages}, model : ModelInputs,
     temperature : TemperatureInputs, maxTokens : MaxTokensInputs]

CompletionInputs ==
    [prompt : {"Once upon a time"}, model : ModelInputs,
     maxTokens : MaxTokensInputs, temperature : TemperatureInputs]

Requests ==
    {[method |-> "OPTIONS", op |-> "none", input |-> Undefined],
     [method |-> "GET", op |-> "explorer", input |-> Undefined]}
    \cup [method : {"GET", "POST"}, op : {"health", "models"}, input : {Undefined}]
    \cup [method : {"POST"}, op : {"chat"}, input : ChatInputs]
    \cup [method : {"POST"}, op : {"completion"}, input : CompletionInputs]

ProviderErrors ==
    {Error("401 Incorrect API key provided"), Error("Connection error."),
     NonError("aborted")}

ProviderUsage ==
    [t |-> "object", prompt_tokens |-> 5, completion_tokens |-> 3, total_tokens |-> 8]

AssistantMessage(content) ==
    [t |-> "object", role |-> "assistant", content |-> content]

ChatChoices ==
    {<<>>,
     <<[message |-> Undefined]>>,
     <<[message |-> AssistantMessage(Str("Hi there"))]>>,
     <<[message |-> AssistantMessage(Null)]>>,
     <<[message |-> AssistantMessage(Str("Hi there"))],
       [message |-> AssistantMessage(Str("Hello!"))]>>}

ChatOutcomes ==
    {Rejected(e) : e \in ProviderErrors}
    \cup {Resolved(r) : r \in [choices : ChatChoices,
                               model : {"gpt-3.5-turbo-0125"},
                               usage : {Undefined, ProviderUsage}]}

CompletionChoices ==
    {<<>>,
     <<[text |-> Undefined]>>,
     <<[text |-> Str("")]>>,
     <<[text |-> Str(" there was")]>>}

CompletionOutcomes ==
    {Rejected(e) : e \in ProviderErrors}
    \cup {Resolved(r) : r \in [choices : CompletionChoices,
                               model : {"gpt-3.5-turbo-instruct"},
                               usage : {Undefined, ProviderUsage}]}

ProviderModel(id) ==
    [id |-> id, object |-> "model", created |-> 1686935002, owned_by |-> "openai"]

ModelsOutcomes ==
    {Rejected(e) : e \in ProviderErrors}
    \cup {Resolved([data |-> d]) :
            d \in {<<>>, <<ProviderModel("gpt-4")>>,
                   <<ProviderModel("gpt-4"), ProviderModel("gpt-3.5-turbo")>>}}

(* new OpenAI({ apiKey }) returns, or throws in a runtime it refuses. *)
ClientConstruction ==
    {Return(Undefined), Throw(Error("The OpenAI client refused this runtime"))}

---------------------------------------------------------------------------
(* The behaviour *)

(* Before the first request there is none. *)
NoRequest == [method |-> "none", op |-> "none", input |-> Undefined]

Init ==
    /\ pc = "idle"
    /\ served = 0
    /\ env \in Envs
    /\ request = NoRequest
    /\ openai = Undefined
    /\ calls = <<>>
    /\ resolverRuns = <<>>
    /\ settled = Undefined
    /\ opResult = Undefined
    /\ resolverResult = Undefined
    /\ yogaResponse = Undefined
    /\ thrown = Undefined
    /\ response = Undefined

(* The runtime hands the next request to fetch. *)
Receive ==
    /\ pc \in {"idle", "done"}
    /\ served < MaxRequests
    /\ \E req \in Requests : request' = req
    /\ served' = served + 1
    /\ pc' = "received"
    /\ openai' = Undefined
    /\ calls' = <<>>
    /\ resolverRuns' = <<>>
    /\ settled' = Undefined
    /\ opResult' = Undefined
    /\ resolverResult' = Undefined
    /\ yogaResponse' = Undefined
    /\ thrown' = Undefined
    /\ response' = Undefined
    /\ UNCHANGED env

(* fetch: the OPTIONS short-circuit. *)
Preflight ==
    /\ pc = "received"
    /\ isPreflight(request)
    /\ response' = preflightResponse
    /\ pc' = "done"
    /\ UNCHANGED <<served, request, env, openai, calls, resolverRuns, settled,
                   opResult, resolverResult, yogaResponse, thrown>>

(* fetch: const openai = createOpenAIService(env), inside the try. *)
CreateService ==
    /\ pc = "received"
    /\ ~isPreflight(request)
    /\ \E ctor \in ClientConstruction :
         LET r == createOpenAIService(env, ctor) IN
         IF r.kind = "throw"
         THEN /\ thrown' = r.error
              /\ pc' = "caught"
              /\ UNCHANGED openai
         ELSE /\ openai' = r.value
              /\ pc' = "yoga"
              /\ UNCHANGED thrown
    /\ UNCHANGED <<served, request, env, calls, resolverRuns, settled,
                   opResult, resolverResult, yogaResponse, response>>

(* fetch: the catch block. *)
CatchAll ==
    /\ pc = "caught"
    /\ response' = errorResponse(thrown)
    /\ pc' = "done"
    /\ UNCHANGED <<served, request, env, openai, calls, resolverRuns, settled,
                   opResult, resolverResult, yogaResponse, thrown>>

(* yoga.fetch for a page request: the explorer when graphiql is on. *)
ServeExplorer ==
    /\ pc = "yoga"
    /\ request.op = "explorer"
    /\ \E h \in YogaHeaderChoices, st \in NoPageStatuses :
         yogaResponse' =
            IF graphiqlEnabled(env)
            THEN [status |-> 200, headers |-> ("Content-Type" :> "text/html") @@ h,
                  body |-> [t |-> "html"]]
            ELSE [status |-> st, headers |-> h, body |-> [t |-> "other"]]
    /\ pc' = "executed"
    /\ UNCHANGED <<served, request, env, openai, calls, resolverRuns, settled,
                   opResult, resolverResult, thrown, response>>

(* A health resolver that asks the provider for its models. *)
ResolveHealthPingsProvider ==
    /\ pc = "yoga"
    /\ request.op = "health"
    /\ resolverRuns' = Append(resolverRuns, "health")
    /\ calls' = Append(calls, modelsParams)
    /\ resolverResult' = Return(Str("OK"))
    /\ pc' = "resolverSettled"
    /\ UNCHANGED <<served, request, env, openai, settled, opResult,
                   yogaResponse, thrown, response>>

(* resolvers.Query.health: synchronous, it returns 'OK' to the execution   *)
(* layer at once.                                                          *)
ResolveHealth ==
    /\ pc = "yoga"
    /\ request.op = "health"
    /\ resolverRuns' = Append(resolverRuns, "health")
    /\ resolverResult' = Return(Str("OK"))
    /\ pc' = "resolverSettled"
    /\ UNCHANGED <<served, request, env, openai, calls, settled, opResult,
                   yogaResponse, thrown, response>>

(* resolvers.Query.models up to the await in getModels. *)
CallModels ==
    /\ pc = "yoga"
    /\ request.op = "models"
    /\ resolverRuns' = Append(resolverRuns, "models")
    /\ calls' = Append(calls, modelsParams)
    /\ pc' = "awaiting"
    /\ UNCHANGED <<served, request, env, openai, settled, opResult,
                   resolverResult, yogaResponse, thrown, response>>

(* resolvers.Mutation.chat up to the await in chat. *)
CallChat ==
    /\ pc = "yoga"
    /\ request.op = "chat"
    /\ resolverRuns' = Append(resolverRuns, "chat")
    /\ calls' = Append(calls, chatParams(request.input))
    /\ pc' = "awaiting"
    /\ UNCHANGED <<served, request, env, openai, settled, opResult,
                   resolverResult, yogaResponse, thrown, response>>

(* resolvers.Mutation.completion up to the await in completion. *)
CallCompletion ==
    /\ pc = "yoga"
    /\ request.op = "completion"
    /\ resolverRuns' = Append(resolverRuns, "completion")
    /\ calls' = Append(calls, completionParams(request.input))
    /\ pc' = "awaiting"
    /\ UNCHANGED <<served, request, env, openai, settled, opResult,
                   resolverResult, yogaResponse, thrown, response>>

(* The rest of an adapter operation once its provider call has settled     *)
(* with `outcome`: the operation's own promise settles with `result`; the  *)
(* resolver that awaits it is still suspended.                             *)
Resume(outcome, result) ==
    /\ settled' = outcome
    /\ opResult' = result
    /\ pc' = "adapterSettled"
    /\ UNCHANGED <<served, request, env, openai, calls, resolverRuns,
                   resolverResult, yogaResponse, thrown, response>>

(* getModels after the await. *)
ResumeModels ==
    /\ pc = "awaiting"
    /\ request.op = "models"
    /\ \E o \in ModelsOutcomes : Resume(o, getModels(o))

(* chat that issues the call once more after a rejection. *)
ResumeChatRetries ==
    /\ pc = "awaiting"
    /\ request.op = "chat"
    /\ \E o \in ChatOutcomes :
         IF o.kind = "reject" /\ Len(calls) < 2
         THEN /\ calls' = Append(calls, chatParams(request.input))
              /\ settled' = o
              /\ UNCHANGED <<pc, served, request, env, openai, resolverRuns,
                             opResult, resolverResult, yogaResponse, thrown,
                             response>>
         ELSE Resume(o, chat(o))

(* chat after the await. *)
ResumeChat ==
    /\ pc = "awaiting"
    /\ request.op = "chat"
    /\ \E o \in ChatOutcomes : Resume(o, chat(o))

(* completion after the await. *)
ResumeCompletion ==
    /\ pc = "awaiting"
    /\ request.op = "completion"
    /\ \E o \in CompletionOutcomes : Resume(o, completion(o))

(* A resolver that catches the operation's failure and returns null. *)
ResolverSwallowsFailure ==
    /\ pc = "adapterSettled"
    /\ resolverResult' = IF opResult.kind = "throw" THEN Return(Null) ELSE opResult
    /\ pc' = "resolverSettled"
    /\ UNCHANGED <<served, request, env, openai, calls, resolverRuns, settled,
                   opResult, yogaResponse, thrown, response>>

(* The resolvers' `return await context.openai.<operation>(...)`: in a     *)
(* later turn the resolver's promise settles the way the operation's did.  *)
ResolverSettles ==
    /\ pc = "adapterSettled"
    /\ resolverResult' = opResult
    /\ pc' = "resolverSettled"
    /\ UNCHANGED <<served, request, env, openai, calls, resolverRuns, settled,
                   opResult, yogaResponse, thrown, response>>

(* yoga.fetch resolves: the execution layer turns what the resolver        *)
(* returned or threw into the response.                                    *)
Execute ==
    /\ pc = "resolverSettled"
    /\ \E h \in YogaHeaderChoices, masked \in BOOLEAN,
          st \in ExecutionStatuses(resolverResult) :
         yogaResponse' = [status |-> st, headers |-> h,
                          body |-> executionResult(request.op, resolverResult,
                                                   masked)]
    /\ pc' = "executed"
    /\ UNCHANGED <<served, request, env, openai, calls, resolverRuns, settled,
                   opResult, resolverResult, thrown, response>>

(* fetch: createYoga throws or yoga.fetch rejects, before the query is     *)
(* executed or in place of its response; both are inside the try, so the   *)
(* error goes to the catch block.                                          *)
YogaThrows ==
    /\ pc \in {"yoga", "resolverSettled"}
    /\ \E e \in YogaFailures : thrown' = e
    /\ pc' = "caught"
    /\ UNCHANGED <<served, request, env, openai, calls, resolverRuns, settled,
                   opResult, resolverResult, yogaResponse, response>>

(* fetch: copy the response and set the CORS headers on it. *)
AttachCors ==
    /\ pc = "executed"
    /\ response' = withCors(yogaResponse)
    /\ pc' = "done"
    /\ UNCHANGED <<served, request, env, openai, calls, resolverRuns, settled,
                   opResult, resolverResult, yogaResponse, thrown>>

Next ==
    \/ Receive
    \/ Preflight
    \/ CreateService
    \/ CatchAll
    \/ ServeExplorer
    \/ ResolveHealth
    \/ CallModels
    \/ CallChat
    \/ CallCompletion
    \/ ResumeModels
    \/ ResumeChat
    \/ ResumeCompletion
    \/ ResolverSettles
    \/ Execute
    \/ YogaThrows
    \/ AttachCors

Spec == Init /\ [][Next]_vars

---------------------------------------------------------------------------
(* Properties *)

Done == pc = "done"

(* The provider call of the current request has settled. *)
Settled == "kind" \in DOMAIN settled

(* An error of the current request went to fetch's catch block. *)
Caught == thrown.t # "undefined"

(* createOpenAIService threw: the catch holds its error and no adapter     *)
(* exists.                                                                 *)
ConstructionFailed == Caught /\ openai = Undefined

(* The resolver of the current request has settled. *)
ResolverSettled == "kind" \in DOMAIN resolverResult

(* yoga.fetch has answered the current request's query. *)
Executed == "status" \in DOMAIN yogaResponse

HasCorsHeaders(h) ==
    /\ DOMAIN corsHeaders \subseteq DOMAIN h
    /\ h["Access-Control-Allow-Origin"] = "*"
    /\ h["Access-Control-Allow-Methods"] = "GET, POST, OPTIONS"
    /\ h["Access-Control-Allow-Headers"] = "Content-Type, Authorization"

IsGraphQL(resp) == resp.body.t = "graphql"

(* The field failed: it has no value and the errors list is populated. *)
FieldFailed(resp, field) ==
    /\ IsGraphQL(resp)
    /\ Len(resp.body.errors) > 0
    /\ resp.body.errors[1].path = <<field>>
    /\ \/ resp.body.data.t = "null"
       \/ resp.body.data.fields[field].t = "null"

(* The provider answered the chat call with no generated message. *)
NoMessageAnswer ==
    /\ request.op = "chat"
    /\ Settled
    /\ settled.kind = "resolve"
    /\ Falsy(firstMessage(settled.value))

(* C1 as stated: when the provider's chat call succeeds without a message, *)
(* the chat operation fails with the message "No message in response"      *)
(* exactly, and the response has a null chat field and a populated errors  *)
(* list.                                                                    *)
C1_ExactNoMessageText ==
    NoMessageAnswer =>
        /\ opResult.kind = "throw"
        /\ opResult.error.message = "No message in response"
        /\ (Done /\ ~Caught) => FieldFailed(response, "chat")

(* C1 amended: when the provider's chat call succeeds without a message,   *)
(* the chat operation fails with the message "Failed to generate chat      *)
(* response: No message in response" (the inner error passes through the   *)
(* operation's own catch), the resolver hands that error to the execution *)
(* layer, and the execution result has a null chat field and a populated   *)
(* errors list.                                                            *)
C1_WrappedNoMessageText ==
    NoMessageAnswer =>
        /\ opResult.kind = "throw"
        /\ opResult.error.message
             = "Failed to generate chat response: No message in response"
        /\ ResolverSettled => resolverResult = opResult
        /\ Executed => FieldFailed(yogaResponse, "chat")
        /\ (Done /\ ~Caught) => FieldFailed(response, "chat")

C1_Witness ==
    /\ Done
    /\ NoMessageAnswer
    /\ Len(settled.value.choices) = 0
    /\ FieldFailed(response, "chat")

(* The provider calls issued by the chat or completion operation. *)
GenerationCalls ==
    {i \in 1..Len(calls) : calls[i].api \in {"chat.completions.create",
                                              "completions.create"}}

(* C2 as stated: a supplied temperature in [0,2] (0 included), a supplied  *)
(* positive maxTokens and a supplied model name are sent to the provider   *)
(* unchanged by chat and completion.                                       *)
C2_SuppliedValuesSent ==
    \A i \in GenerationCalls :
        LET input == request.input
            sent == calls[i]
        IN /\ (input.temperature.t = "number" /\ input.temperature.v \in 0..20)
                 => sent.temperature = input.temperature
           /\ (input.maxTokens.t = "number" /\ input.maxTokens.v > 0)
                 => sent.max_tokens = input.maxTokens
           /\ (input.model.t = "string" /\ input.model.v # "")
                 => sent.model = input.model

(* C3: when the request omits model, temperature or maxTokens, the call    *)
(* carries the default: "gpt-3.5-turbo" for chat, "gpt-3.5-turbo-instruct" *)
(* for completion, temperature 0.7 and maxTokens 1000 for both.            *)
C3_DefaultsForOmittedFields ==
    \A i \in GenerationCalls :
        LET input == request.input
            sent == calls[i]
        IN /\ input.model.t = "undefined" =>
                sent.model = Str(IF request.op = "chat"
                                 THEN "gpt-3.5-turbo"
                                 ELSE "gpt-3.5-turbo-instruct")
           /\ input.temperature.t = "undefined" => sent.temperature = Num(7)
           /\ input.maxTokens.t = "undefined" => sent.max_tokens = Num(1000)

C3_Witness ==
    /\ Done
    /\ request.op = "completion"
    /\ Len(calls) = 1
    /\ request.input.model.t = "undefined"
    /\ request.input.temperature.t = "undefined"
    /\ request.input.maxTokens.t = "undefined"
    /\ calls[1].model = Str("gpt-3.5-turbo-instruct")

(* The catch-all's response: status 500, the JSON error body with a text   *)
(* message, and the three CORS headers.                                    *)
IsInternalServerError(resp) ==
    /\ resp.status = 500
    /\ resp.body.t = "json"
    /\ resp.body.error = "Internal Server Error"
    /\ resp.body.message = errorText(thrown)
    /\ HasCorsHeaders(resp.headers)

(* C4: a failure while constructing the adapter on a non-OPTIONS request   *)
(* (a missing or empty OPENAI_API_KEY always is one) ends in the 500 JSON  *)
(* body with the CORS headers, with no resolver run and no provider call.  *)
C4_ConstructionFailureIs500 ==
    /\ (pc \notin {"idle", "received"} /\ ~isPreflight(request)
          /\ Falsy(env.OPENAI_API_KEY)) => ConstructionFailed
    /\ ConstructionFailed =>
          /\ pc \in {"caught", "done"}
          /\ resolverRuns = <<>>
          /\ calls = <<>>
          /\ ~Executed
          /\ Done => IsInternalServerError(response)

C4_Witness ==
    /\ Done
    /\ request.method = "POST"
    /\ request.op = "chat"
    /\ env.OPENAI_API_KEY = Str("")
    /\ response.status = 500
    /\ response.body.message = "OPENAI_API_KEY is not configured"

(* C5: an OPTIONS request is answered with status 204, no body and the     *)
(* three CORS headers, and never constructs the adapter, runs a resolver   *)
(* or calls the provider, whatever the credential.                         *)
C5_PreflightShortCircuit ==
    request.method = "OPTIONS" =>
        /\ pc \in {"received", "done"}
        /\ openai = Undefined
        /\ ~Caught
        /\ resolverRuns = <<>>
        /\ calls = <<>>
        /\ Done =>
             /\ response.status = 204
             /\ response.body.t = "null"
             /\ HasCorsHeaders(response.headers)

C5_Witness ==
    /\ Done
    /\ request.method = "OPTIONS"
    /\ env.OPENAI_API_KEY.t = "undefined"
    /\ response.status = 204

(* C6: every response the handler returns carries the three CORS headers   *)
(* with their fixed values.                                                *)
C6_CorsOnEveryResponse ==
    Done => HasCorsHeaders(response.headers)

C6_Witness ==
    /\ Done
    /\ IsGraphQL(response)
    /\ Len(response.body.errors) > 0
    /\ "Access-Control-Allow-Origin" \in DOMAIN yogaResponse.headers
    /\ yogaResponse.headers["Access-Control-Allow-Origin"] # "*"

(* The adapter operation of the current request has failed. *)
OperationFailed ==
    /\ request.op \in {"chat", "completion", "models"}
    /\ "kind" \in DOMAIN opResult
    /\ opResult.kind = "throw"

FailurePrefix(op) ==
    CASE op = "chat" -> "Failed to generate chat response: "
      [] op = "completion" -> "Failed to generate completion: "
      [] op = "models" -> "Failed to fetch models: "

(* The texts an operation's catch can find in what it caught. *)
CaughtTexts ==
    {errorText(e) : e \in ProviderErrors}
    \cup {"No message in response", "No text in response"}

HasFailurePrefix(message, op) ==
    \E inner \in CaughtTexts : message = FailurePrefix(op) \o inner

(* The catch-all's JSON body, as opposed to a GraphQL body. *)
IsErrorBody(resp) == resp.body.t = "json"

CompletionAnswered ==
    /\ request.op = "completion"
    /\ Settled
    /\ settled.kind = "resolve"

(* C8: a completion response whose first choice has the text "" is a       *)
(* success with result text ""; the operation fails on a response only     *)
(* when the text is absent (no first choice, or an undefined text).        *)
C8_EmptyTextIsSuccess ==
    CompletionAnswered =>
        LET text == firstText(settled.value) IN
        /\ opResult.kind = "throw" <=> text.t = "undefined"
        /\ (text.t = "string" /\ text.v = "") =>
              /\ opResult.kind = "return"
              /\ opResult.value.text = Str("")
              /\ (Done /\ ~Caught) =>
                   /\ response.body.errors = <<>>
                   /\ response.body.data.fields["completion"].text = Str("")

C8_Witness ==
    /\ Done
    /\ CompletionAnswered
    /\ Len(settled.value.choices) = 1
    /\ settled.value.choices[1].text = Str("")
    /\ opResult.kind = "return"
    /\ ~Caught

(* The response carries the health field with the value "OK". *)
HealthIsOK(resp) ==
    /\ IsGraphQL(resp)
    /\ resp.body.errors = <<>>
    /\ resp.body.data.t = "object"
    /\ resp.body.data.fields["health"] = Str("OK")

(* C9 as stated: a health query is always answered "OK", and handling it   *)
(* makes no provider call.                                                 *)
C9_HealthAlwaysOK ==
    request.op = "health" =>
        /\ calls = <<>>
        /\ Done => HealthIsOK(response)

(* C9 amended: handling a health query makes no provider call, and it is   *)
(* answered "OK" whenever the adapter was constructed and the GraphQL      *)
(* server answers; when construction fails (a missing or empty credential) *)
(* the answer is the 500 error body and the health resolver does not run.  *)
C9_HealthOKOnceConstructed ==
    request.op = "health" =>
        /\ calls = <<>>
        /\ ~Settled
        /\ Falsy(env.OPENAI_API_KEY) => ~Executed
        /\ ConstructionFailed => resolverRuns = <<>>
        /\ Done => IF Caught
                   THEN IsInternalServerError(response)
                   ELSE HealthIsOK(response) /\ resolverRuns = <<"health">>

C9_Witness ==
    /\ Done
    /\ request.op = "health"
    /\ ~Caught
    /\ HealthIsOK(response)
    /\ env.ENVIRONMENT = Str("production")

ProviderApi(op) ==
    CASE op = "chat" -> "chat.completions.create"
      [] op = "completion" -> "completions.create"
      [] op = "models" -> "models.list"

(* C10: an invocation of chat, completion or getModels issues exactly one  *)
(* provider call; when that call fails no second call is issued and the    *)
(* operation has failed in the step in which the call settled.             *)
C10_OneCallNoRetry ==
    /\ Len(calls) <= 1
    /\ (request.op \in {"chat", "completion", "models"} /\ resolverRuns # <<>>) =>
          /\ Len(calls) = 1
          /\ calls[1].api = ProviderApi(request.op)
    /\ (Settled /\ settled.kind = "reject") =>
          /\ Len(calls) = 1
          /\ opResult.kind = "throw"
          /\ pc \in {"adapterSettled", "resolverSettled", "executed", "caught",
                     "done"}

C10_Witness ==
    /\ Done
    /\ request.op = "chat"
    /\ Settled
    /\ settled.kind = "reject"
    /\ Len(calls) = 1
    /\ opResult.kind = "throw"
    /\ ~Caught

====
